---- MODULE Spec2Model ----
(***************************************************************************)
(* A model of finance_tracker.py: the Transaction record, the              *)
(* FinanceTracker store (entry collection, category vocabularies, the      *)
(* JSON persistence file) and its queries.                                 *)
(*                                                                         *)
(* Representation.                                                         *)
(*  - Amounts are integers (the code uses floats; abs and sums of the      *)
(*    integers used here are exact in both).                               *)
(*  - A date is the integer YYYYMMDD of its "YYYY-MM-DD" string: for the   *)
(*    fixed-width ISO strings the code compares with <= and >=, string     *)
(*    order is the order of these integers.  The empty string is 0, the    *)
(*    least string; None is -1 and is never compared.                      *)
(*  - A category vocabulary is a set: the code keeps a list, appends only  *)
(*    absent names and rebuilds it through set() on load, so membership    *)
(*    is all that survives.                                                *)
(*  - The persistence file is a tagged JSON value, so that files no        *)
(*    save_data call wrote (hand-edited, truncated) can be given.          *)
(***************************************************************************)
EXTENDS Integers, Sequences, FiniteSets, TLC

VARIABLES file, alive, transactions, categories, op, ret

vars == <<file, alive, transactions, categories, op, ret>>

\* ------------------------------------------------------------------ bounds

\* The entry collection holds at most MaxTxns entries in the model.
MaxTxns == 2

\* _generate_id reduces the clock reading modulo 1000000; the model reduces
\* it modulo IdModulus.
IdModulus == 2

\* ----------------------------------------------------------------- strings

\* str.lower() on the strings of the model.
Lower(s) ==
    CASE s = "Income" -> "income"
      [] s = "INCOME" -> "income"
      [] s = "Expense" -> "expense"
      [] s = "EXPENSE" -> "expense"
      [] s = "Transfer" -> "transfer"
      [] s = "Food" -> "food"
      [] s = "FOOD" -> "food"
      [] s = "Salary" -> "salary"
      [] s = "Bonus" -> "bonus"
      [] OTHER -> s

\* A date parameter left at its default, date: str = None.
DateNone == -1

\* The empty string given as a date.
DateEmpty == 0

\* A string parameter left at its default None (category, transaction_type
\* of get_transactions).
StrNone == "<None>"

\* Python truthiness of an optional date / string argument.
DateTruthy(d) == d # DateNone /\ d # DateEmpty

StrTruthy(s) == s # StrNone /\ s # ""

\* The calendar dates datetime.now() reads in the model.
NowDates == {20240229, 20240301}

\* ------------------------------------------------------------- Transaction

\* Transaction.__init__ storing the amount as given, sign included.
NewTransaction_signed(id, amount, category, description, transaction_type, date, today) ==
    [ id               |-> id,
      amount           |-> amount,
      category         |-> category,
      description      |-> description,
      transaction_type |-> Lower(transaction_type),
      date             |-> IF DateTruthy(date) THEN date ELSE today ]

\* Transaction.__init__ with the id _generate_id returned.
NewTransaction(id, amount, category, description, transaction_type, date, today) ==
    [ id               |-> id,
      amount           |-> IF amount < 0 THEN -amount ELSE amount,
      category         |-> category,
      description      |-> description,
      transaction_type |-> Lower(transaction_type),
      date             |-> IF DateTruthy(date) THEN date ELSE today ]

\* Transaction._generate_id: the clock reading in microseconds, reduced.
GenerateId(clock) == clock % IdModulus

\* Transaction.to_dict: the flat record written to the file.
to_dict(t) ==
    [ id          |-> t.id,
      amount      |-> t.amount,
      category    |-> t.category,
      description |-> t.description,
      type        |-> t.transaction_type,
      date        |-> t.date ]

\* Transaction.from_dict without transaction.id = data['id']: the entry keeps
\* the id the constructor generated.
from_dict_fresh_id(data, today) ==
    NewTransaction(GenerateId(0), data.amount, data.category,
                   data.description, data.type, data.date, today)

\* Transaction.from_dict: the constructor runs (abs, lower, date default);
\* the id it generated (whatever the clock read, here 0) is then replaced
\* by the record's.
from_dict(data, today) ==
    [ NewTransaction(GenerateId(0), data.amount, data.category,
                     data.description, data.type, data.date, today)
      EXCEPT !.id = data.id ]

\* The keys from_dict reads.
EntryKeys == {"id", "amount", "category", "description", "type", "date"}

\* ---------------------------------------------------------- FinanceTracker

\* The category lists __init__ starts from.
DefaultCategories ==
    [ income  |-> {"Salary", "Freelance", "Investment", "Gift", "Other Income"},
      expense |-> {"Food", "Transportation", "Entertainment", "Bills", "Shopping",
                   "Healthcare", "Education", "Travel", "Other Expense"} ]

\* The kinds add_transaction accepts.
ValidTypes == {"income", "expense"}

\* JSON values.
JArray(items) == [json |-> "array", items |-> items]

JObject(members) == [json |-> "object", members |-> members]

\* dict.get(key, default).
dict_get(d, key, default) == IF key \in DOMAIN d THEN d[key] ELSE default

\* save_data: the whole document json.dump writes.
save_data(txns, cats) ==
    [ kind |-> "json",
      top  |-> "object",
      data |-> [ transactions |-> JArray([i \in 1..Len(txns) |-> JObject(to_dict(txns[i]))]),
                 categories   |-> JObject([ income  |-> JArray(cats.income),
                                            expense |-> JArray(cats.expense) ]) ] ]

\* The exception from_dict raises on one element of the transactions list.
ItemError(item) ==
    IF item.json # "object" THEN "TypeError"
    ELSE IF ~(EntryKeys \subseteq DOMAIN item.members) THEN "KeyError"
    ELSE "none"

\* The exception the list comprehension of load_data stops at: the first
\* failing element's.
FirstError(items) ==
    LET bad == {i \in 1..Len(items) : ItemError(items[i]) # "none"}
    IN  IF bad = {} THEN "none"
        ELSE ItemError(items[CHOOSE i \in bad : \A j \in bad : i <= j])

\* The file's list taken in place of the store's instead of merged into it.
MergeCategories_replace(cats, m, key) ==
    IF key \in DOMAIN m THEN [cats EXCEPT ![key] = m[key].items] ELSE cats

\* The merge of one key of the file's categories into the store's.
MergeCategories(cats, m, key) ==
    IF key \in DOMAIN m THEN [cats EXCEPT ![key] = @ \cup m[key].items] ELSE cats

\* Whether the value the file gives for a category key can be appended to
\* a list.
MergeOk(m, key) == key \notin DOMAIN m \/ m[key].json = "array"

\* load_data on a store holding txns and cats. raised is the exception that
\* leaves load_data ("none": it returns), reported whether the except clause
\* ran.
load_data(txns, cats, f, today) ==
    LET out(t, c, exc, rep) ==
            [transactions |-> t, categories |-> c, raised |-> exc, reported |-> rep]
    IN  IF f.kind = "absent" THEN out(txns, cats, "none", FALSE)
        ELSE IF f.kind = "garbage" THEN out(txns, cats, "none", TRUE)
        ELSE IF f.top # "object" THEN out(txns, cats, "AttributeError", FALSE)
        ELSE
          LET tv == dict_get(f.data, "transactions", JArray(<<>>))
          IN  IF tv.json # "array" THEN out(txns, cats, "TypeError", FALSE)
              ELSE IF FirstError(tv.items) = "KeyError" THEN out(txns, cats, "none", TRUE)
              ELSE IF FirstError(tv.items) = "TypeError" THEN out(txns, cats, "TypeError", FALSE)
              ELSE
                LET newt == [i \in 1..Len(tv.items) |->
                                from_dict(tv.items[i].members, today)]
                    cv == dict_get(f.data, "categories", JObject(<<>>))
                IN  IF cv.json # "object" THEN out(newt, cats, "AttributeError", FALSE)
                    ELSE
                      LET m  == cv.members
                          c1 == MergeCategories(cats, m, "income")
                          c2 == MergeCategories(c1, m, "expense")
                      IN  IF ~MergeOk(m, "income") THEN out(newt, cats, "TypeError", FALSE)
                          ELSE IF ~MergeOk(m, "expense") THEN out(newt, c1, "TypeError", FALSE)
                          ELSE out(newt, c2, "none", FALSE)

\* FinanceTracker.__init__: empty collection, default categories, load_data.
init_tracker(f, today) == load_data(<<>>, DefaultCategories, f, today)

\* add_transaction validating the kind only after the entry was appended.
add_transaction_late_check(txns, cats, f, call, clock, today) ==
    LET t  == NewTransaction(GenerateId(clock), call.amount, call.category,
                             call.description, call.transaction_type, call.date, today)
        t2 == Append(txns, t)
    IN  IF Lower(call.transaction_type) \notin ValidTypes
        THEN [transactions |-> t2, categories |-> cats, file |-> f,
              raised |-> "ValueError", entry |-> <<>>]
        ELSE
          LET c2 == [cats EXCEPT ![Lower(call.transaction_type)] = @ \cup {call.category}]
          IN  [transactions |-> t2, categories |-> c2, file |-> save_data(t2, c2),
               raised |-> "none", entry |-> <<t>>]

\* add_transaction: the store, the file and the call's outcome. entry holds
\* the returned Transaction, or nothing when the call raised.
add_transaction(txns, cats, f, call, clock, today) ==
    IF Lower(call.transaction_type) \notin ValidTypes
    THEN [transactions |-> txns, categories |-> cats, file |-> f,
          raised |-> "ValueError", entry |-> <<>>]
    ELSE
      LET k  == Lower(call.transaction_type)
          c2 == [cats EXCEPT ![k] = @ \cup {call.category}]
          t  == NewTransaction(GenerateId(clock), call.amount, call.category,
                               call.description, call.transaction_type, call.date, today)
          t2 == Append(txns, t)
      IN  [transactions |-> t2, categories |-> c2, file |-> save_data(t2, c2),
           raised |-> "none", entry |-> <<t>>]

\* delete_transaction calling save_data whether or not an entry was removed.
delete_transaction_always_saves(txns, cats, f, transaction_id) ==
    LET kept == SelectSeq(txns, LAMBDA t : t.id # transaction_id)
    IN  [transactions |-> kept, file |-> save_data(kept, cats),
         removed |-> Len(kept) < Len(txns)]

\* delete_transaction: every entry with the id is dropped; the file is
\* rewritten only when the collection got shorter.
delete_transaction(txns, cats, f, transaction_id) ==
    LET kept == SelectSeq(txns, LAMBDA t : t.id # transaction_id)
    IN  IF Len(kept) < Len(txns)
        THEN [transactions |-> kept, file |-> save_data(kept, cats), removed |-> TRUE]
        ELSE [transactions |-> kept, file |-> f, removed |-> FALSE]

\* ------------------------------------------------------------------ inputs

\* The clock readings (microseconds) _generate_id can see: IdModulus is the
\* first reading whose id repeats an earlier one's.
Clocks == 0..IdModulus

\* The dates the call reads from the clock: Transaction.__init__ evaluates
\* datetime.now() only when date is falsy.
NowRead(date) == IF DateTruthy(date) THEN {CHOOSE d \in NowDates : TRUE} ELSE NowDates

\* The clock readings the call takes for its id: none (here the one reading
\* 0) when the kind is rejected before a Transaction is built.
ClocksRead(call) == IF Lower(call.transaction_type) \in ValidTypes THEN Clocks ELSE {0}

\* The add_transaction calls of the model.
AddCalls ==
    { [amount |-> -2, category |-> "food",   description |-> "snack",
       transaction_type |-> "expense",  date |-> 20240131],
      [amount |-> 3,  category |-> "Food",   description |-> "lunch",
       transaction_type |-> "Expense",  date |-> DateNone],
      [amount |-> 2,  category |-> "Food",   description |-> "refund",
       transaction_type |-> "INCOME",   date |-> DateEmpty],
      [amount |-> 3,  category |-> "Food",   description |-> "lunch",
       transaction_type |-> "transfer", date |-> 20240215],
      [amount |-> -2, category |-> "Rent",   description |-> "flat",
       transaction_type |-> "",         date |-> DateNone] }

\* The ids delete_transaction is called with: IdModulus is an id no entry
\* created by add_transaction has.
DeleteIds == 0..IdModulus

\* One record of a transactions list in a file.
FileEntry(id, amount, category, description, type, date) ==
    JObject([id |-> id, amount |-> amount, category |-> category,
             description |-> description, type |-> type, date |-> date])

\* A file holding the given transactions value and categories value.
JsonFile(data) == [kind |-> "json", top |-> "object", data |-> data]

\* The persistence files a tracker is started on.
InitialFiles ==
    { [kind |-> "absent"],
      [kind |-> "garbage"],
      [kind |-> "json", top |-> "array"],
      JsonFile(<<>>),
      save_data(<<NewTransaction(1, 3, "food", "snack", "expense", 20240131, 20240229)>>,
                [DefaultCategories EXCEPT !.expense = @ \cup {"food"}]),
      JsonFile([transactions |->
                  JArray(<<FileEntry(1, -2, "Food", "refund", "Income", DateEmpty)>>)]),
      JsonFile([transactions |->
                  JArray(<<FileEntry(0, 3, "Food", "move", "Transfer", 20240215)>>)]),
      JsonFile([transactions |->
                  JArray(<<JObject([id |-> 1, amount |-> 3, category |-> "Food",
                                    description |-> "lunch", type |-> "expense"])>>)]),
      JsonFile([transactions |-> JArray(<<[json |-> "string"]>>)]),
      JsonFile([transactions |-> [json |-> "number"]]),
      JsonFile([transactions |->
                  JArray(<<FileEntry(1, 3, "Food", "lunch", "expense", 20240215)>>),
                categories |-> JArray({})]),
      JsonFile([categories |-> JObject([income  |-> JArray({"Bonus"}),
                                        expense |-> [json |-> "number"]])]),
      JsonFile([categories |-> JObject([income |-> JArray({"Bonus"})])]) }

\* ----------------------------------------------------------------- actions

\* Before any tracker is constructed: the file as found, no store.
Init ==
    /\ file \in InitialFiles
    /\ alive = FALSE
    /\ transactions = <<>>
    /\ categories = DefaultCategories
    /\ op = [name |-> "none"]
    /\ ret = [raised |-> "none"]

\* FinanceTracker(data_file): a fresh tracker on the file (every command of
\* main builds one). An exception leaving __init__ leaves no tracker.
Construct ==
    \E today \in NowDates :
      LET r == init_tracker(file, today)
      IN  /\ alive' = (r.raised = "none")
          /\ transactions' = r.transactions
          /\ categories' = r.categories
          /\ op' = [name |-> "construct"]
          /\ ret' = [raised |-> r.raised, reported |-> r.reported]
          /\ UNCHANGED file

\* tracker.load_data() on an existing tracker.
LoadData ==
    /\ alive
    /\ \E today \in NowDates :
         LET r == load_data(transactions, categories, file, today)
         IN  /\ transactions' = r.transactions
             /\ categories' = r.categories
             /\ op' = [name |-> "load_data"]
             /\ ret' = [raised |-> r.raised, reported |-> r.reported]
             /\ UNCHANGED <<file, alive>>

\* tracker.add_transaction(...).
AddTransaction ==
    /\ alive
    /\ \E call \in AddCalls :
       \E clock \in ClocksRead(call), today \in NowRead(call.date) :
         LET r == add_transaction(transactions, categories, file, call, clock, today)
         IN  /\ Len(r.transactions) <= MaxTxns
             /\ transactions' = r.transactions
             /\ categories' = r.categories
             /\ file' = r.file
             /\ op' = [name |-> "add_transaction", call |-> call]
             /\ ret' = [raised |-> r.raised, entry |-> r.entry]
             /\ UNCHANGED alive

\* tracker.delete_transaction(id).
DeleteTransaction ==
    /\ alive
    /\ \E id \in DeleteIds :
         LET r == delete_transaction(transactions, categories, file, id)
         IN  /\ transactions' = r.transactions
             /\ file' = r.file
             /\ op' = [name |-> "delete_transaction", id |-> id]
             /\ ret' = [raised |-> "none", removed |-> r.removed]
             /\ UNCHANGED <<alive, categories>>

\* tracker.save_data() called on its own.
SaveData ==
    /\ alive
    /\ file' = save_data(transactions, categories)
    /\ op' = [name |-> "save_data"]
    /\ ret' = [raised |-> "none"]
    /\ UNCHANGED <<alive, transactions, categories>>

Next == Construct \/ LoadData \/ SaveData \/ AddTransaction \/ DeleteTransaction

Spec == Init /\ [][Next]_vars

\* ----------------------------------------------------------------- queries

\* The place sorted(..., reverse=True) gives t among entries already in
\* non-increasing date order: after every entry dated no earlier (the sort
\* is stable).
InsertByDate(sorted, t) ==
    LET k == Cardinality({i \in 1..Len(sorted) : sorted[i].date >= t.date})
    IN  SubSeq(sorted, 1, k) \o <<t>> \o SubSeq(sorted, k + 1, Len(sorted))

\* sorted(filtered, key=lambda x: x.date, reverse=True).
RECURSIVE SortByDateDesc(_)
SortByDateDesc(s) ==
    IF s = <<>> THEN <<>>
    ELSE InsertByDate(SortByDateDesc(SubSeq(s, 1, Len(s) - 1)), s[Len(s)])

\* The end date taken as exclusive.
NotAfter_strict(date, end_date) == date < end_date

\* One comparison of get_transactions with the end date.
NotAfter(date, end_date) == date <= end_date

\* get_transactions: the four optional filters, then the sort.
get_transactions(txns, start_date, end_date, category, transaction_type) ==
    LET f1 == IF DateTruthy(start_date)
              THEN SelectSeq(txns, LAMBDA t : t.date >= start_date) ELSE txns
        f2 == IF DateTruthy(end_date)
              THEN SelectSeq(f1, LAMBDA t : NotAfter(t.date, end_date)) ELSE f1
        f3 == IF StrTruthy(category)
              THEN SelectSeq(f2, LAMBDA t : Lower(t.category) = Lower(category)) ELSE f2
        f4 == IF StrTruthy(transaction_type)
              THEN SelectSeq(f3, LAMBDA t : t.transaction_type = Lower(transaction_type))
              ELSE f3
    IN  SortByDateDesc(f4)

\* sum(t.amount for t in ts if t.transaction_type == kind).
RECURSIVE SumOfType(_, _)
SumOfType(ts, kind) ==
    IF ts = <<>> THEN 0
    ELSE (IF Head(ts).transaction_type = kind THEN Head(ts).amount ELSE 0)
         + SumOfType(Tail(ts), kind)

\* get_balance adding the expenses to the income.
get_balance_added(txns, start_date, end_date) ==
    LET ts             == get_transactions(txns, start_date, end_date, StrNone, StrNone)
        total_income   == SumOfType(ts, "income")
        total_expenses == SumOfType(ts, "expense")
    IN  [income |-> total_income, expenses |-> total_expenses,
         balance |-> total_income + total_expenses]

\* get_balance over the entries of the period.
get_balance(txns, start_date, end_date) ==
    LET ts             == get_transactions(txns, start_date, end_date, StrNone, StrNone)
        total_income   == SumOfType(ts, "income")
        total_expenses == SumOfType(ts, "expense")
    IN  [income |-> total_income, expenses |-> total_expenses,
         balance |-> total_income - total_expenses]

\* The collections the queries are run on hold at most MaxQueryTxns entries.
MaxQueryTxns == 3

\* The entries of those collections.
QueryEntries ==
    { NewTransaction(0, 100, "Salary", "pay",   "income",   20240215, 20240301),
      NewTransaction(1, 40,  "Food",   "lunch", "expense",  20240131, 20240301),
      NewTransaction(2, 10,  "food",   "snack", "expense",  20240215, 20240301),
      NewTransaction(3, 7,   "Food",   "sale",  "income",   20240229, 20240301),
      NewTransaction(4, 5,   "Salary", "move",  "transfer", 20240301, 20240301) }

\* The files the queried trackers are started on.
QueryFiles ==
    { save_data(txns, DefaultCategories) :
        txns \in UNION {[1..n -> QueryEntries] : n \in 0..MaxQueryTxns} }

\* The date arguments of the queries.
QueryStarts == {DateNone, DateEmpty, 20240201, 20240215}

QueryEnds == {DateNone, DateEmpty, 20240215, 20240229}

\* The category and kind arguments of get_transactions.
QueryCategories == {StrNone, "", "FOOD", "Salary"}

QueryTypes == {StrNone, "", "Expense", "income"}

\* A tracker constructed on one of the query files, its command not yet
\* dispatched.
QueryInit ==
    /\ file \in QueryFiles
    /\ alive = TRUE
    /\ transactions = init_tracker(file, CHOOSE d \in NowDates : TRUE).transactions
    /\ categories = init_tracker(file, CHOOSE d \in NowDates : TRUE).categories
    /\ op = [name |-> "construct"]
    /\ ret = [raised |-> "none", reported |-> FALSE]

\* The list command of main: tracker.get_transactions(...).
GetTransactions ==
    /\ alive
    /\ op.name = "construct"
    /\ \E s \in QueryStarts, e \in QueryEnds, c \in QueryCategories, k \in QueryTypes :
         /\ op' = [name |-> "get_transactions", start_date |-> s, end_date |-> e,
                   category |-> c, transaction_type |-> k]
         /\ ret' = [raised |-> "none", list |-> get_transactions(transactions, s, e, c, k)]
         /\ UNCHANGED <<file, alive, transactions, categories>>

\* The balance command of main: tracker.get_balance(start, end).
GetBalance ==
    /\ alive
    /\ op.name = "construct"
    /\ \E s \in QueryStarts, e \in QueryEnds :
         /\ op' = [name |-> "get_balance", start_date |-> s, end_date |-> e]
         /\ ret' = [raised |-> "none", result |-> get_balance(transactions, s, e)]
         /\ UNCHANGED <<file, alive, transactions, categories>>

QueryNext == GetTransactions \/ GetBalance

\* main after parsing: a tracker is constructed, one query command runs.
QuerySpec == QueryInit /\ [][QueryNext]_vars

\* ------------------------------------------------------------------ claims

\* The positions of the collection holding an entry with the id.
Holding(txns, id) == {i \in 1..Len(txns) : txns[i].id = id}

\* txns without its i-th entry.
Without(txns, i) == SubSeq(txns, 1, i - 1) \o SubSeq(txns, i + 1, Len(txns))

\* C1: delete_transaction(id) with an entry of that id present removes
\* exactly one entry (the others kept, in order) and returns true; with no
\* such entry it returns false and leaves the collection unchanged.
C1_DeleteRemovesExactlyOne ==
    [][ op'.name = "delete_transaction" =>
          IF Holding(transactions, op'.id) # {}
          THEN /\ ret'.removed
               /\ Len(transactions') = Len(transactions) - 1
               /\ \E i \in Holding(transactions, op'.id) :
                    transactions' = Without(transactions, i)
          ELSE /\ ~ret'.removed
               /\ transactions' = transactions ]_vars

\* C2: no two entries of the collection have the same id.
C2_UniqueIds ==
    \A i, j \in 1..Len(transactions) :
        i # j => transactions[i].id # transactions[j].id

\* A file that exists and is not the document save_data writes: not JSON,
\* or JSON of the wrong structure.
Malformed(f) ==
    /\ f.kind # "absent"
    /\ \/ f.kind = "garbage"
       \/ f.top # "object"
       \/ /\ "transactions" \in DOMAIN f.data
          /\ \/ f.data.transactions.json # "array"
             \/ \E i \in 1..Len(f.data.transactions.items) :
                  \/ f.data.transactions.items[i].json # "object"
                  \/ ~(EntryKeys \subseteq DOMAIN f.data.transactions.items[i].members)
       \/ /\ "categories" \in DOMAIN f.data
          /\ \/ f.data.categories.json # "object"
             \/ \E k \in DOMAIN f.data.categories.members :
                  f.data.categories.members[k].json # "array"

\* C6: constructing a tracker on a malformed file never raises; the tracker
\* has an empty collection and exactly the default categories.
C6_MalformedFileStartsEmpty ==
    (op.name = "construct" /\ Malformed(file)) =>
        /\ ret.raised = "none"
        /\ alive
        /\ transactions = <<>>
        /\ categories = DefaultCategories

\* C7: every entry of the collection, loaded ones included, has an amount
\* >= 0 and the kind 'income' or 'expense'.
C7_EntriesWellFormed ==
    \A i \in 1..Len(transactions) :
        /\ transactions[i].amount >= 0
        /\ transactions[i].transaction_type \in {"income", "expense"}

\* Whether an add_transaction call names a kind the tracker accepts.
NamesValidKind(call) == Lower(call.transaction_type) \in {"income", "expense"}

\* C3: add_transaction with a kind that is neither 'income' nor 'expense'
\* (ignoring case) fails with an error and changes nothing: not the entry
\* collection, not the category vocabularies, not the persisted file.
C3_InvalidKindRejected ==
    [][ (op'.name = "add_transaction" /\ ~NamesValidKind(op'.call)) =>
          /\ ret'.raised # "none"
          /\ alive' = alive
          /\ transactions' = transactions
          /\ categories' = categories
          /\ file' = file ]_vars

\* A rejected add_transaction on a tracker that holds entries, its category
\* new to both vocabularies.
C3_Witness ==
    /\ op.name = "add_transaction"
    /\ ret.raised = "ValueError"
    /\ Len(transactions) > 0
    /\ op.call.category \notin (categories.income \cup categories.expense)

\* C4: add_transaction with a valid kind returns an entry whose amount is
\* the absolute value of the given amount, appends it to the collection,
\* and get_transactions() with no filters then lists an entry with the
\* returned id and the given category, description, kind and date (the
\* date of the call when a non-empty one is given, the clock's otherwise).
C4_AddAppendsEntry ==
    [][ (op'.name = "add_transaction" /\ NamesValidKind(op'.call)) =>
          LET c      == op'.call
              listed == get_transactions(transactions', DateNone, DateNone, StrNone, StrNone)
          IN  /\ ret'.raised = "none"
              /\ Len(ret'.entry) = 1
              /\ ret'.entry[1].amount >= 0
              /\ ret'.entry[1].amount \in {c.amount, -c.amount}
              /\ transactions' = Append(transactions, ret'.entry[1])
              /\ \E i \in 1..Len(listed) :
                   /\ listed[i].id = ret'.entry[1].id
                   /\ listed[i].category = c.category
                   /\ listed[i].description = c.description
                   /\ listed[i].transaction_type \in {"income", "expense"}
                   /\ listed[i].transaction_type = Lower(c.transaction_type)
                   /\ IF c.date \notin {DateNone, DateEmpty}
                      THEN listed[i].date = c.date
                      ELSE listed[i].date \in NowDates ]_vars

\* An accepted add_transaction of a negative amount onto a tracker that
\* already held an entry.
C4_Witness ==
    /\ op.name = "add_transaction"
    /\ ret.raised = "none"
    /\ op.call.amount < 0
    /\ Len(transactions) = 2
    /\ transactions[2] = ret.entry[1]

\* C5: save_data() followed by constructing a fresh tracker on the file
\* gives the same entry collection, field by field and in order, and
\* category vocabularies that include the original ones.
C5_RoundTrip ==
    alive =>
      \A today \in NowDates :
        LET r == init_tracker(save_data(transactions, categories), today)
        IN  /\ r.raised = "none"
            /\ r.transactions = transactions
            /\ categories.income \subseteq r.categories.income
            /\ categories.expense \subseteq r.categories.expense

\* A fresh tracker just constructed on the file save_data wrote for a
\* collection of two entries and a custom category.
C5_Witness ==
    /\ alive
    /\ op.name = "construct"
    /\ Len(transactions) = 2
    /\ "food" \in categories.expense
    /\ file = save_data(transactions, categories)

\* C8: each category vocabulary always contains every default category and
\* never loses a category, whatever the operation.
C8_CategoriesOnlyGrow ==
    /\ DefaultCategories.income \subseteq categories.income
    /\ DefaultCategories.expense \subseteq categories.expense
    /\ [][ /\ DefaultCategories.income \subseteq categories'.income
           /\ DefaultCategories.expense \subseteq categories'.expense
           /\ categories.income \subseteq categories'.income
           /\ categories.expense \subseteq categories'.expense ]_vars

\* The last entry of the custom category 'food' was deleted and 'food' is
\* still an expense category.
C8_Witness ==
    /\ op.name = "delete_transaction"
    /\ ret.removed
    /\ "food" \in categories.expense
    /\ \A i \in 1..Len(transactions) : transactions[i].category # "food"

\* Whether the entry meets every criterion the call gives; a criterion left
\* at None or given as the empty string is not given.
Satisfies(t, o) ==
    /\ o.start_date \notin {DateNone, DateEmpty} => t.date >= o.start_date
    /\ o.end_date \notin {DateNone, DateEmpty} => t.date <= o.end_date
    /\ o.category \notin {StrNone, ""} => Lower(t.category) = Lower(o.category)
    /\ o.transaction_type \notin {StrNone, ""} =>
           t.transaction_type = Lower(o.transaction_type)

\* How many times the entry occurs in the sequence.
Count(seq, e) == Cardinality({i \in 1..Len(seq) : seq[i] = e})

\* C9: get_transactions(start, end, category, kind) returns exactly the
\* entries of the collection that meet every given criterion (date >= start,
\* date <= end inclusive, category equal ignoring case, kind equal), in
\* non-increasing order of date.
C9_FilterAndSort ==
    op.name = "get_transactions" =>
      /\ \A i \in 1..Len(ret.list) :
           /\ Satisfies(ret.list[i], op)
           /\ Count(ret.list, ret.list[i]) = Count(transactions, ret.list[i])
      /\ \A i \in 1..Len(transactions) :
           Satisfies(transactions[i], op) =>
             Count(ret.list, transactions[i]) = Count(transactions, transactions[i])
      /\ \A i, j \in 1..Len(ret.list) :
           i < j => ret.list[i].date >= ret.list[j].date

\* get_transactions with start 2024-02-01 and end 2024-02-29 on a collection
\* holding entries dated 2024-01-31, 2024-02-15 and 2024-02-29: the first is
\* left out, the other two (the end date itself included) are returned.
C9_Witness ==
    /\ op.name = "get_transactions"
    /\ op.start_date = 20240201
    /\ op.end_date = 20240229
    /\ op.category = StrNone
    /\ op.transaction_type = StrNone
    /\ {transactions[i].date : i \in 1..Len(transactions)} = {20240131, 20240215, 20240229}
    /\ {ret.list[i].date : i \in 1..Len(ret.list)} = {20240215, 20240229}

\* The sum of the amounts of the first n entries that have the kind and lie
\* in the period the call gives.
RECURSIVE AmountIn(_, _, _, _)
AmountIn(txns, kind, o, n) ==
    IF n = 0 THEN 0
    ELSE AmountIn(txns, kind, o, n - 1)
         + (IF /\ txns[n].transaction_type = kind
               /\ o.start_date \notin {DateNone, DateEmpty} => txns[n].date >= o.start_date
               /\ o.end_date \notin {DateNone, DateEmpty} => txns[n].date <= o.end_date
            THEN txns[n].amount ELSE 0)

\* C10: get_balance returns income = the sum of the amounts of the income
\* entries, expenses = the sum of the amounts of the expense entries (of the
\* period, when one is given; of the whole collection otherwise) and
\* balance = income - expenses; all three are zero for an empty collection.
C10_Balance ==
    op.name = "get_balance" =>
      /\ ret.result.income = AmountIn(transactions, "income", op, Len(transactions))
      /\ ret.result.expenses = AmountIn(transactions, "expense", op, Len(transactions))
      /\ ret.result.balance = ret.result.income - ret.result.expenses
      /\ transactions = <<>> =>
           ret.result = [income |-> 0, expenses |-> 0, balance |-> 0]

\* get_balance() over an income of 100 and expenses of 40 and 10 returned
\* income 100, expenses 50, balance 50.
C10_Witness ==
    /\ op.name = "get_balance"
    /\ op.start_date = DateNone
    /\ op.end_date = DateNone
    /\ Len(transactions) = 3
    /\ [i \in 1..3 |-> <<transactions[i].amount, transactions[i].transaction_type>>]
         = << <<100, "income">>, <<40, "expense">>, <<10, "expense">> >>
    /\ ret.result = [income |-> 100, expenses |-> 50, balance |-> 50]

\* Whether the file is a document whose transactions are the entries of the
\* collection, field by field and in order, and whose categories are the two
\* vocabularies.
FileHolds(f, txns, cats) ==
    /\ f.kind = "json"
    /\ f.top = "object"
    /\ DOMAIN f.data = {"transactions", "categories"}
    /\ f.data.transactions.json = "array"
    /\ Len(f.data.transactions.items) = Len(txns)
    /\ \A i \in 1..Len(txns) :
         /\ f.data.transactions.items[i].json = "object"
         /\ DOMAIN f.data.transactions.items[i].members = EntryKeys
         /\ f.data.transactions.items[i].members.id = txns[i].id
         /\ f.data.transactions.items[i].members.amount = txns[i].amount
         /\ f.data.transactions.items[i].members.category = txns[i].category
         /\ f.data.transactions.items[i].members.description = txns[i].description
         /\ f.data.transactions.items[i].members.type = txns[i].transaction_type
         /\ f.data.transactions.items[i].members.date = txns[i].date
    /\ f.data.categories.json = "object"
    /\ DOMAIN f.data.categories.members = {"income", "expense"}
    /\ f.data.categories.members.income.json = "array"
    /\ f.data.categories.members.income.items = cats.income
    /\ f.data.categories.members.expense.json = "array"
    /\ f.data.categories.members.expense.items = cats.expense

\* C11: the file is rewritten exactly when a mutation succeeds: after every
\* accepted add_transaction and every delete_transaction that removed an
\* entry the file holds the tracker's collection and vocabularies; a
\* delete_transaction that removes nothing, like a rejected add_transaction,
\* leaves the file as it was.
C11_FileRewrittenOnMutation ==
    [][ /\ (op'.name = "add_transaction" /\ ret'.raised = "none") =>
             FileHolds(file', transactions', categories')
        /\ (op'.name = "add_transaction" /\ ret'.raised # "none") => file' = file
        /\ (op'.name = "delete_transaction" /\ ret'.removed) =>
             FileHolds(file', transactions', categories')
        /\ (op'.name = "delete_transaction" /\ ~ret'.removed) => file' = file ]_vars

\* A delete_transaction that removed one of two entries: the file holds the
\* entry that is left and the custom category 'food'.
C11_Witness ==
    /\ op.name = "delete_transaction"
    /\ ret.removed
    /\ Len(transactions) = 1
    /\ "food" \in categories.expense
    /\ FileHolds(file, transactions, categories)

\* A delete_transaction of an id no entry has, on a tracker that has written
\* nothing yet: there is still no file.
C11_WitnessNoWrite ==
    /\ op.name = "delete_transaction"
    /\ ~ret.removed
    /\ file.kind = "absent"

====
